---------------------------- MODULE Spec2Model ----------------------------
(***************************************************************************)
(* A model of the WATTx FCMP++ FFI library                                 *)
(* (src/src/privacy/fcmp/rust/src/lib.rs).                                 *)
(*                                                                         *)
(* Every extern "C" function is a pure operator of the same name that      *)
(* takes the caller's arguments (and, where the function reads it, the     *)
(* global state) and returns its return code together with the content of  *)
(* the output memory after the call.  The actions draw the arguments from  *)
(* small sets, apply the operator and record the call.                     *)
(*                                                                         *)
(* A pointer is a record [null, mem]: mem is the memory it points to.      *)
(* An Option is a sequence of length at most one.                          *)
(*                                                                         *)
(* The external crates are modelled by small stand-ins that keep the       *)
(* shape of their interfaces:                                              *)
(*  - blake2::Blake2b512 is a keyed family of deterministic functions from *)
(*    byte strings to 64-byte digests; the key is fixed in the initial     *)
(*    state and never changes, so a property checked for every key holds   *)
(*    for every member of the family (constant functions, the all-zero     *)
(*    digest and digests whose prefix is no curve point included);         *)
(*  - curve25519_dalek is a cyclic group of order Cofactor * PrimeOrder    *)
(*    with a partial 32-byte encoding (some byte strings decompress, some  *)
(*    do not).                                                             *)
(***************************************************************************)
EXTENDS Integers, Sequences, FiniteSets, TLC

VARIABLES
    GLOBAL_PARAMS,   \* static mut GLOBAL_PARAMS: Option<Box<FcmpParams>>
    blake2_key,      \* which member of the hash family Blake2b512 is
    call,            \* the last FFI call: its arguments, return code, memory
    prev,            \* the FFI call before the last one (pure-function specs)
    proof_out,       \* the caller's proof buffer
    proof_len_out,   \* the caller's proof length cell
    proof_for,       \* history: what the content of proof_out was proven for
    log,             \* history: the lifecycle calls (the stores to
                     \* GLOBAL_PARAMS when threads run), in order
    pc,              \* per thread: where it is in the call it is running
    tret,            \* per thread: return code of its last finished call
    frame            \* the arguments and locals of a call that runs in steps

vars == <<GLOBAL_PARAMS, blake2_key, call, prev, proof_out, proof_len_out,
          proof_for, log, pc, tret, frame>>

-----------------------------------------------------------------------------
(* Error codes and sizes                                                   *)

FCMP_SUCCESS == 0
FCMP_ERROR_INVALID_PARAM == -1
FCMP_ERROR_PROOF_GENERATION == -2
FCMP_ERROR_PROOF_VERIFICATION == -3
FCMP_ERROR_MEMORY == -4
FCMP_ERROR_INVALID_POINT == -5
FCMP_ERROR_INVALID_SCALAR == -6
FCMP_ERROR_NOT_INITIALIZED == -7
FCMP_ERROR_INTERNAL == -99

SCALAR_SIZE == 32
POINT_SIZE == 32
OUTPUT_TUPLE_SIZE == POINT_SIZE * 3

\* let proof_len = 64 in fcmp_prove
PROOF_LEN == 64
\* if proof_len < 64 in fcmp_verify
MIN_PROOF_LEN == 64
\* a Blake2b512 digest has 64 bytes
DIGEST_SIZE == 64

-----------------------------------------------------------------------------
(* Bytes, pointers, options                                                *)

Fill(n, b) == [i \in 1..n |-> b]
Zeros(n) == Fill(n, 0)

NULL == [null |-> TRUE, mem |-> <<>>]
Ptr(m) == [null |-> FALSE, mem |-> m]

None == <<>>
Some(x) == <<x>>
IsSome(o) == Len(o) > 0
IsNone(o) == Len(o) = 0
Unwrap(o) == o[1]

\* the first n bytes of s
Prefix(s, n) == [i \in 1..n |-> s[i]]

\* s with its first n bytes replaced by those of src: ptr::copy_nonoverlapping
CopyNonoverlapping(src, s, n) ==
    [i \in 1..Len(s) |-> IF i <= n THEN src[i] ELSE s[i]]

RECURSIVE BitXor(_, _)
BitXor(x, y) ==
    IF x = 0 /\ y = 0 THEN 0
    ELSE ((x + y) % 2) + 2 * BitXor(x \div 2, y \div 2)

\* b & 0x7f
Mask7f(b) == b % 128

-----------------------------------------------------------------------------
(* blake2::Blake2b512                                                      *)

HashModulus == 65521

HashKeys == { <<0, 0>>, <<0, 9>>, <<1, 0>>, <<1, 77>> }

Blake2b512_new == 0

\* Absorbing the bytes lo..hi one after the other.  (The loops over byte
\* strings are written over halves of the range, first the lower half and
\* then the upper one, which keeps their evaluation shallow; the test of the
\* first half's result has it computed before the second half is begun.)
RECURSIVE HashFold(_, _, _, _)
HashFold(h, bytes, lo, hi) ==
    IF lo > hi THEN h
    ELSE IF lo = hi THEN (h * 31 + bytes[lo] + 1) % HashModulus
    ELSE LET mid == (lo + hi) \div 2
             lower == HashFold(h, bytes, lo, mid)
         IN  IF lower >= 0 THEN HashFold(lower, bytes, mid + 1, hi) ELSE lower

\* hasher.update(bytes)
Blake2b512_update(h, bytes) == HashFold(h, bytes, 1, Len(bytes))

\* hasher.finalize(): 64 bytes
Blake2b512_finalize(key, h) ==
    LET j == (key[1] * h + key[2]) % HashModulus
    IN  [i \in 1..DIGEST_SIZE |->
            IF i = 1 THEN j % 256
            ELSE IF i = DIGEST_SIZE THEN (j \div 256) % 256
            ELSE 0]

-----------------------------------------------------------------------------
(* curve25519_dalek: EdwardsPoint, CompressedEdwardsY, Scalar              *)

Cofactor == 8
PrimeOrder == 5
GroupOrder == Cofactor * PrimeOrder

\* ED25519_BASEPOINT_POINT: a generator of the prime-order subgroup
ED25519_BASEPOINT_POINT == Cofactor

\* EdwardsPoint::compress().to_bytes()
Compress(p) == [i \in 1..POINT_SIZE |-> IF i = 1 THEN p + 1 ELSE 0]

\* CompressedEdwardsY(bytes).decompress(): Option<EdwardsPoint>
Decompress(bytes) ==
    IF /\ bytes[1] >= 1
       /\ bytes[1] <= GroupOrder
       /\ \A i \in 2..POINT_SIZE : bytes[i] = 0
    THEN Some(bytes[1] - 1)
    ELSE None

ED25519_BASEPOINT_COMPRESSED == Compress(ED25519_BASEPOINT_POINT)

PointAdd(p, q) == (p + q) % GroupOrder
MulByCofactor(p) == (Cofactor * p) % GroupOrder

\* the bytes hi down to lo, most significant first
RECURSIVE ModOrderFold(_, _, _, _)
ModOrderFold(bytes, lo, hi, acc) ==
    IF lo > hi THEN acc
    ELSE IF lo = hi THEN (acc * 256 + bytes[lo]) % PrimeOrder
    ELSE LET mid == (lo + hi) \div 2
             upper == ModOrderFold(bytes, mid + 1, hi, acc)
         IN  IF upper >= 0 THEN ModOrderFold(bytes, lo, mid, upper) ELSE upper

\* Scalar::from_bytes_mod_order: the little-endian integer, reduced
ScalarFromBytesModOrder(bytes) == ModOrderFold(bytes, 1, Len(bytes), 0)

\* scalar * point
ScalarMul(s, p) == (s * p) % GroupOrder


-----------------------------------------------------------------------------
(* Global state and initialization functions                               *)

FcmpParams == [_initialized |-> TRUE]

\* fcmp_init: the return code and the value of GLOBAL_PARAMS after the call
\* a variant of fcmp_init that refuses a call when parameters exist
fcmp_init_once(g) ==
    IF IsSome(g)
    THEN [ret |-> FCMP_ERROR_INVALID_PARAM, params |-> g]
    ELSE [ret |-> FCMP_SUCCESS, params |-> Some(FcmpParams)]

fcmp_init(g) ==
    IF IsSome(g)
    THEN [ret |-> FCMP_SUCCESS, params |-> g]
    ELSE [ret |-> FCMP_SUCCESS, params |-> Some(FcmpParams)]

\* fcmp_cleanup: the value of GLOBAL_PARAMS after the call
fcmp_cleanup(g) == None

fcmp_is_initialized(g) == IF IsSome(g) THEN 1 ELSE 0

-----------------------------------------------------------------------------
(* Scalar operations.  Each returns [ret, out]: out is the memory behind   *)
(* the out pointer after the call.                                         *)

\* rng is the outcome of OsRng.try_fill_bytes: None (Err) or Some(bytes)
fcmp_scalar_random(out, rng) ==
    IF out.null THEN [ret |-> FCMP_ERROR_INVALID_PARAM, out |-> out.mem]
    ELSE IF IsNone(rng) THEN [ret |-> FCMP_ERROR_INTERNAL, out |-> out.mem]
    ELSE LET scalar == [Unwrap(rng) EXCEPT ![SCALAR_SIZE] = Mask7f(@)]
         IN  [ret |-> FCMP_SUCCESS,
              out |-> CopyNonoverlapping(scalar, out.mem, SCALAR_SIZE)]

\* for i in lo..=hi { sum = a[i] + b[i] + carry; result[i] = sum as u8;
\*     carry = sum >> 8 }: the bytes written and the carry left
RECURSIVE AddWithCarry(_, _, _, _, _)
AddWithCarry(a_bytes, b_bytes, lo, hi, carry) ==
    IF lo = hi
    THEN LET sum == a_bytes[lo] + b_bytes[lo] + carry
         IN  [result |-> <<sum % 256>>, carry |-> sum \div 256]
    ELSE LET mid == (lo + hi) \div 2
             lower == AddWithCarry(a_bytes, b_bytes, lo, mid, carry)
             upper == AddWithCarry(a_bytes, b_bytes, mid + 1, hi, lower.carry)
         IN  IF lower.carry >= 0
             THEN [result |-> lower.result \o upper.result,
                   carry |-> upper.carry]
             ELSE lower

\* a variant of fcmp_scalar_add that leaves the top bit of the sum in place
fcmp_scalar_add_no_mask(out, a, b) ==
    IF out.null \/ a.null \/ b.null
    THEN [ret |-> FCMP_ERROR_INVALID_PARAM, out |-> out.mem]
    ELSE LET sum == AddWithCarry(a.mem, b.mem, 1, SCALAR_SIZE, 0).result
         IN  [ret |-> FCMP_SUCCESS,
              out |-> CopyNonoverlapping(sum, out.mem, SCALAR_SIZE)]

fcmp_scalar_add(out, a, b) ==
    IF out.null \/ a.null \/ b.null
    THEN [ret |-> FCMP_ERROR_INVALID_PARAM, out |-> out.mem]
    ELSE LET sum == AddWithCarry(a.mem, b.mem, 1, SCALAR_SIZE, 0).result
             result == [sum EXCEPT ![SCALAR_SIZE] = Mask7f(@)]
         IN  [ret |-> FCMP_SUCCESS,
              out |-> CopyNonoverlapping(result, out.mem, SCALAR_SIZE)]

fcmp_scalar_mul(out, a, b) ==
    IF out.null \/ a.null \/ b.null
    THEN [ret |-> FCMP_ERROR_INVALID_PARAM, out |-> out.mem]
    ELSE LET xor == [i \in 1..SCALAR_SIZE |-> BitXor(a.mem[i], b.mem[i])]
             result == [xor EXCEPT ![SCALAR_SIZE] = Mask7f(@)]
         IN  [ret |-> FCMP_SUCCESS,
              out |-> CopyNonoverlapping(result, out.mem, SCALAR_SIZE)]

-----------------------------------------------------------------------------
(* Point operations                                                        *)

\* CompressedEdwardsY::from_slice: Err unless the slice has 32 bytes
FromSlice(bytes) == IF Len(bytes) = POINT_SIZE THEN Some(bytes) ELSE None

fcmp_point_mul(out, scalar, point) ==
    IF out.null \/ scalar.null \/ point.null
    THEN [ret |-> FCMP_ERROR_INVALID_PARAM, out |-> out.mem]
    ELSE LET point_compressed == FromSlice(Prefix(point.mem, POINT_SIZE))
         IN  IF IsNone(point_compressed)
             THEN [ret |-> FCMP_ERROR_INVALID_POINT, out |-> out.mem]
             ELSE LET point_opt == Decompress(Unwrap(point_compressed))
                  IN  IF IsNone(point_opt)
                      THEN [ret |-> FCMP_ERROR_INVALID_POINT, out |-> out.mem]
                      ELSE LET s == ScalarFromBytesModOrder(
                                        Prefix(scalar.mem, SCALAR_SIZE))
                               result == ScalarMul(s, Unwrap(point_opt))
                           IN  [ret |-> FCMP_SUCCESS,
                                out |-> CopyNonoverlapping(Compress(result),
                                                           out.mem, POINT_SIZE)]

fcmp_point_add(out, a, b) ==
    IF out.null \/ a.null \/ b.null
    THEN [ret |-> FCMP_ERROR_INVALID_PARAM, out |-> out.mem]
    ELSE LET a_compressed == FromSlice(Prefix(a.mem, POINT_SIZE))
             b_compressed == FromSlice(Prefix(b.mem, POINT_SIZE))
         IN  IF IsNone(a_compressed) \/ IsNone(b_compressed)
             THEN [ret |-> FCMP_ERROR_INVALID_POINT, out |-> out.mem]
             ELSE LET a_point == Decompress(Unwrap(a_compressed))
                      b_point == Decompress(Unwrap(b_compressed))
                  IN  IF IsNone(a_point) \/ IsNone(b_point)
                      THEN [ret |-> FCMP_ERROR_INVALID_POINT, out |-> out.mem]
                      ELSE LET result == PointAdd(Unwrap(a_point),
                                                  Unwrap(b_point))
                           IN  [ret |-> FCMP_SUCCESS,
                                out |-> CopyNonoverlapping(Compress(result),
                                                           out.mem, POINT_SIZE)]

fcmp_point_basepoint(out) ==
    IF out.null THEN [ret |-> FCMP_ERROR_INVALID_PARAM, out |-> out.mem]
    ELSE [ret |-> FCMP_SUCCESS,
          out |-> CopyNonoverlapping(ED25519_BASEPOINT_COMPRESSED, out.mem,
                                     POINT_SIZE)]

fcmp_point_is_valid(point) ==
    IF point.null THEN 0
    ELSE LET compressed == FromSlice(Prefix(point.mem, POINT_SIZE))
         IN  IF IsNone(compressed) THEN 0
             ELSE IF IsSome(Decompress(Unwrap(compressed))) THEN 1 ELSE 0

-----------------------------------------------------------------------------
(* Hash functions                                                          *)

\* b"WATTx_hash_to_point_v1"
TAG_HASH_TO_POINT ==
    <<87, 65, 84, 84, 120, 95, 104, 97, 115, 104, 95, 116, 111, 95, 112, 111,
      105, 110, 116, 95, 118, 49>>
\* b"WATTx_Pedersen_H_v1"
TAG_PEDERSEN_H ==
    <<87, 65, 84, 84, 120, 95, 80, 101, 100, 101, 114, 115, 101, 110, 95, 72,
      95, 118, 49>>
\* b"WATTx_FCMP_Proof_v1"
TAG_PROOF ==
    <<87, 65, 84, 84, 120, 95, 70, 67, 77, 80, 95, 80, 114, 111, 111, 102, 95,
      118, 49>>

\* if data_len > 0 { slice::from_raw_parts(data, data_len) } else { &[] }
InputSlice(data, data_len) ==
    IF data_len > 0 THEN Prefix(data.mem, data_len) ELSE <<>>

fcmp_hash_to_scalar(key, out, data, data_len) ==
    IF out.null \/ (data.null /\ data_len > 0)
    THEN [ret |-> FCMP_ERROR_INVALID_PARAM, out |-> out.mem]
    ELSE LET input == InputSlice(data, data_len)
             hash == Blake2b512_finalize(key,
                         Blake2b512_update(Blake2b512_new, input))
             result == [Prefix(hash, SCALAR_SIZE)
                            EXCEPT ![SCALAR_SIZE] = Mask7f(@)]
         IN  [ret |-> FCMP_SUCCESS,
              out |-> CopyNonoverlapping(result, out.mem, SCALAR_SIZE)]

\* the last value of the attempt counter: for i in 0..=255u8
LAST_ATTEMPT == 255

\* the state of hasher2 after hasher2.update(&hash), the same in every
\* round of the retry loop: hash is the digest of the tag and the input
HashToPointSeed(key, input) ==
    LET hash == Blake2b512_finalize(key,
                    Blake2b512_update(
                        Blake2b512_update(Blake2b512_new, TAG_HASH_TO_POINT),
                        input))
    IN  Blake2b512_update(Blake2b512_new, hash)

\* round i of the retry loop: the candidate encoding, decompressed
Candidate(key, seeded, i) ==
    LET h2 == Blake2b512_finalize(key, Blake2b512_update(seeded, <<i>>))
        attempt == Prefix(h2, POINT_SIZE)
    IN  Decompress(attempt)

\* a variant of HashToPointLoop that tries the higher counters first
RECURSIVE HashToPointLoop_from_top(_, _, _, _)
HashToPointLoop_from_top(key, seeded, lo, hi) ==
    IF lo = hi
    THEN LET point == Candidate(key, seeded, lo)
         IN  IF IsSome(point) THEN Some(<<lo, Unwrap(point)>>) ELSE None
    ELSE LET mid == (lo + hi) \div 2
             upper == HashToPointLoop_from_top(key, seeded, mid + 1, hi)
         IN  IF IsSome(upper) THEN upper
             ELSE HashToPointLoop_from_top(key, seeded, lo, mid)

\* The retry loop over the counters lo..hi in increasing order.
\* Some(<<i, point>>) for the first candidate that decompresses.
RECURSIVE HashToPointLoop(_, _, _, _)
HashToPointLoop(key, seeded, lo, hi) ==
    IF lo = hi
    THEN LET point == Candidate(key, seeded, lo)
         IN  IF IsSome(point) THEN Some(<<lo, Unwrap(point)>>) ELSE None
    ELSE LET mid == (lo + hi) \div 2
             lower == HashToPointLoop(key, seeded, lo, mid)
         IN  IF IsSome(lower) THEN lower
             ELSE HashToPointLoop(key, seeded, mid + 1, hi)

fcmp_hash_to_point(key, out, data, data_len) ==
    IF out.null \/ (data.null /\ data_len > 0)
    THEN [ret |-> FCMP_ERROR_INVALID_PARAM, out |-> out.mem]
    ELSE LET input == InputSlice(data, data_len)
             seeded == HashToPointSeed(key, input)
             found == HashToPointLoop(key, seeded, 0, LAST_ATTEMPT)
         IN  IF IsSome(found)
             THEN LET result == MulByCofactor(Unwrap(found)[2])
                  IN  [ret |-> FCMP_SUCCESS,
                       out |-> CopyNonoverlapping(Compress(result), out.mem,
                                                  POINT_SIZE)]
             ELSE [ret |-> FCMP_ERROR_INTERNAL, out |-> out.mem]

-----------------------------------------------------------------------------
(* Pedersen commitment                                                     *)

fcmp_pedersen_commit(key, out, value, blinding) ==
    IF out.null \/ value.null \/ blinding.null
    THEN [ret |-> FCMP_ERROR_INVALID_PARAM, out |-> out.mem]
    ELSE LET v == ScalarFromBytesModOrder(Prefix(value.mem, SCALAR_SIZE))
             b == ScalarFromBytesModOrder(Prefix(blinding.mem, SCALAR_SIZE))
             g == ED25519_BASEPOINT_POINT
             h_res == fcmp_hash_to_point(key, Ptr(Zeros(POINT_SIZE)),
                                         Ptr(TAG_PEDERSEN_H),
                                         Len(TAG_PEDERSEN_H))
         IN  IF h_res.ret # FCMP_SUCCESS
             THEN [ret |-> FCMP_ERROR_INTERNAL, out |-> out.mem]
             ELSE LET h == Unwrap(Decompress(h_res.out))
                      commitment == PointAdd(ScalarMul(v, g), ScalarMul(b, h))
                  IN  [ret |-> FCMP_SUCCESS,
                       out |-> CopyNonoverlapping(Compress(commitment),
                                                  out.mem, POINT_SIZE)]

-----------------------------------------------------------------------------
(* Machine integers: a usize or u32 is its little-endian bytes, so that    *)
(* the width of the arithmetic is the width of the type.                   *)

\* size_of::<usize>() on a 64-bit target
USIZE_BYTES == 8
U32_BYTES == 4

RECURSIVE NatBytes(_, _)
\* the w little-endian bytes of n
NatBytes(n, w) == IF w = 0 THEN <<>> ELSE <<n % 256>> \o NatBytes(n \div 256, w - 1)

\* x as usize: zero extension to w bytes
ZeroExtend(x, w) == [i \in 1..w |-> IF i <= Len(x) THEN x[i] ELSE 0]

IsZero(x) == \A i \in 1..Len(x) : x[i] = 0

RECURSIVE BitLengthNat(_)
BitLengthNat(n) == IF n = 0 THEN 0 ELSE 1 + BitLengthNat(n \div 2)

RECURSIVE BitLengthFrom(_, _)
BitLengthFrom(x, i) ==
    IF i = 0 THEN 0
    ELSE IF x[i] # 0 THEN 8 * (i - 1) + BitLengthNat(x[i])
    ELSE BitLengthFrom(x, i - 1)

\* 32 - x.leading_zeros() for a u32
BitLength(x) == BitLengthFrom(x, Len(x))

RECURSIVE AddBytes(_, _, _, _, _)
AddBytes(x, y, i, carry, result) ==
    IF i > Len(x) THEN [value |-> result, overflow |-> carry # 0]
    ELSE LET sum == x[i] + y[i] + carry
         IN  AddBytes(x, y, i + 1, sum \div 256, Append(result, sum % 256))

\* x + y in the width of x: the wrapped value and whether it overflowed
UsizeAdd(x, y) == AddBytes(x, y, 1, 0, <<>>)

RECURSIVE ConvSum(_, _, _, _)
\* the sum of x[i] * y[k - i + 1] over the i from lo that are in range
ConvSum(x, y, k, i) ==
    IF i > Len(x) \/ i > k THEN 0
    ELSE (IF k - i + 1 <= Len(y) THEN x[i] * y[k - i + 1] ELSE 0)
         + ConvSum(x, y, k, i + 1)

RECURSIVE MulBytes(_, _, _, _, _)
\* the 2 * Len(x) bytes of the full product
MulBytes(x, y, k, carry, result) ==
    IF k > 2 * Len(x) THEN result
    ELSE LET sum == ConvSum(x, y, k, 1) + carry
         IN  MulBytes(x, y, k + 1, sum \div 256, Append(result, sum % 256))

\* x * y in the width of x: the wrapped value and whether it overflowed
UsizeMul(x, y) ==
    LET full == MulBytes(x, y, 1, 0, <<>>)
    IN  [value |-> Prefix(full, Len(x)),
         overflow |-> \E i \in (Len(x) + 1)..(2 * Len(x)) : full[i] # 0]

RECURSIVE LessEqFrom(_, _, _)
LessEqFrom(x, y, i) ==
    IF i = 0 THEN TRUE
    ELSE IF x[i] # y[i] THEN x[i] < y[i]
    ELSE LessEqFrom(x, y, i - 1)

\* x <= y for two integers of the same width
LessEq(x, y) == LessEqFrom(x, y, Len(x))

-----------------------------------------------------------------------------
(* fcmp_proof_size                                                         *)

\* The result is [aborted, value].  With overflow checks (a debug build) an
\* overflowing operation panics and the process aborts; without them (a
\* release build) it wraps.
fcmp_proof_size(overflow_checks, num_inputs, num_layers) ==
    IF IsZero(num_inputs) \/ IsZero(num_layers)
    THEN [aborted |-> FALSE, value |-> NatBytes(0, USIZE_BYTES)]
    ELSE LET base == NatBytes(32 * 16, USIZE_BYTES)
             ipa == NatBytes(32 * 2 * BitLength(num_layers), USIZE_BYTES)
             c1 == UsizeMul(NatBytes(32, USIZE_BYTES),
                            ZeroExtend(num_inputs, USIZE_BYTES))
             commits == UsizeMul(c1.value, ZeroExtend(num_layers, USIZE_BYTES))
             s1 == UsizeAdd(base, ipa)
             s2 == UsizeAdd(s1.value, commits.value)
             s3 == UsizeAdd(s2.value, NatBytes(64, USIZE_BYTES))
             overflowed == \/ c1.overflow \/ commits.overflow
                           \/ s1.overflow \/ s2.overflow \/ s3.overflow
         IN  IF overflow_checks /\ overflowed
             THEN [aborted |-> TRUE, value |-> NatBytes(0, USIZE_BYTES)]
             ELSE [aborted |-> FALSE, value |-> s3.value]

-----------------------------------------------------------------------------
(* fcmp_prove and fcmp_verify                                              *)

\* for layer in layers { if !layer.elements.is_null() && layer.num_elements > 0
\*     { hasher.update(elements) } }
RECURSIVE HashLayers(_, _, _)
HashLayers(h, layers, i) ==
    IF i > Len(layers) THEN h
    ELSE LET layer == layers[i]
         IN  IF ~layer.elements.null /\ layer.num_elements > 0
             THEN HashLayers(
                      Blake2b512_update(h,
                          Prefix(layer.elements.mem,
                                 layer.num_elements * SCALAR_SIZE)),
                      layers, i + 1)
             ELSE HashLayers(h, layers, i + 1)

\* a variant of ProveHash that also absorbs the leaf index
ProveHash_with_leaf_index(key, tree_root, output, branch_ref) ==
    LET h1 == Blake2b512_update(Blake2b512_new, TAG_PROOF)
        h2 == Blake2b512_update(h1, Prefix(tree_root.mem, POINT_SIZE))
        h3 == Blake2b512_update(h2, Prefix(output.mem, OUTPUT_TUPLE_SIZE))
        h4 == Blake2b512_update(h3, <<branch_ref.leaf_index>>)
        layers == Prefix(branch_ref.layers.mem, branch_ref.num_layers)
    IN  Blake2b512_finalize(key, HashLayers(h4, layers, 1))

\* the placeholder proof: the hash of the tag, the root, the output tuple
\* and the elements of the layers
ProveHash(key, tree_root, output, branch_ref) ==
    LET h1 == Blake2b512_update(Blake2b512_new, TAG_PROOF)
        h2 == Blake2b512_update(h1, Prefix(tree_root.mem, POINT_SIZE))
        h3 == Blake2b512_update(h2, Prefix(output.mem, OUTPUT_TUPLE_SIZE))
        layers == Prefix(branch_ref.layers.mem, branch_ref.num_layers)
    IN  Blake2b512_finalize(key, HashLayers(h3, layers, 1))

\* a variant of ProveEmit whose capacity check also refuses a buffer of
\* exactly the proof's length
ProveEmit_off_by_one(hash, proof_out_p, proof_len_out_p, proof_max_len) ==
    LET proof_len == PROOF_LEN
    IN  IF proof_max_len <= proof_len
        THEN [ret |-> FCMP_ERROR_MEMORY, proof_out |-> proof_out_p.mem,
              proof_len_out |-> proof_len_out_p.mem]
        ELSE [ret |-> FCMP_SUCCESS,
              proof_out |-> CopyNonoverlapping(hash, proof_out_p.mem,
                                               proof_len),
              proof_len_out |-> proof_len]

\* a variant of ProveEmit that reports the length before it checks the
\* capacity
ProveEmit_len_first(hash, proof_out_p, proof_len_out_p, proof_max_len) ==
    LET proof_len == PROOF_LEN
    IN  IF proof_max_len < proof_len
        THEN [ret |-> FCMP_ERROR_MEMORY, proof_out |-> proof_out_p.mem,
              proof_len_out |-> proof_len]
        ELSE [ret |-> FCMP_SUCCESS,
              proof_out |-> CopyNonoverlapping(hash, proof_out_p.mem,
                                               proof_len),
              proof_len_out |-> proof_len]

\* a variant of ProveEmit that reports a length one short of the proof's
ProveEmit_short_len(hash, proof_out_p, proof_len_out_p, proof_max_len) ==
    LET proof_len == PROOF_LEN
    IN  IF proof_max_len < proof_len
        THEN [ret |-> FCMP_ERROR_MEMORY, proof_out |-> proof_out_p.mem,
              proof_len_out |-> proof_len_out_p.mem]
        ELSE [ret |-> FCMP_SUCCESS,
              proof_out |-> CopyNonoverlapping(hash, proof_out_p.mem,
                                               proof_len),
              proof_len_out |-> proof_len - 1]

\* the capacity check and the two writes that end fcmp_prove
ProveEmit(hash, proof_out_p, proof_len_out_p, proof_max_len) ==
    LET proof_len == PROOF_LEN
    IN  IF proof_max_len < proof_len
        THEN [ret |-> FCMP_ERROR_MEMORY, proof_out |-> proof_out_p.mem,
              proof_len_out |-> proof_len_out_p.mem]
        ELSE [ret |-> FCMP_SUCCESS,
              proof_out |-> CopyNonoverlapping(hash, proof_out_p.mem,
                                               proof_len),
              proof_len_out |-> proof_len]

\* The result is [ret, proof_out, proof_len_out]: the memory behind the two
\* output pointers after the call.
fcmp_prove(g, key, proof_out_p, proof_len_out_p, proof_max_len, tree_root, output, branch) ==
    LET unchanged(code) == [ret |-> code, proof_out |-> proof_out_p.mem,
                            proof_len_out |-> proof_len_out_p.mem]
    IN  IF \/ proof_out_p.null \/ proof_len_out_p.null
           \/ tree_root.null \/ output.null \/ branch.null
        THEN unchanged(FCMP_ERROR_INVALID_PARAM)
        ELSE IF IsNone(g)
        THEN unchanged(FCMP_ERROR_NOT_INITIALIZED)
        ELSE LET branch_ref == branch.mem
             IN  IF branch_ref.layers.null \/ branch_ref.num_layers = 0
                 THEN unchanged(FCMP_ERROR_INVALID_PARAM)
                 ELSE ProveEmit(ProveHash(key, tree_root, output, branch_ref),
                                proof_out_p, proof_len_out_p, proof_max_len)

\* proof_bytes.iter().all(|&b| b == 0)
AllZero(proof_bytes) == \A i \in 1..Len(proof_bytes) : proof_bytes[i] = 0

\* a variant of fcmp_verify that checks the proof's length before it checks
\* that the library is initialized
fcmp_verify_len_first(g, tree_root, input, proof, proof_len) ==
    IF tree_root.null \/ input.null \/ proof.null
    THEN FCMP_ERROR_INVALID_PARAM
    ELSE IF proof_len < MIN_PROOF_LEN THEN FCMP_ERROR_INVALID_PARAM
    ELSE IF IsNone(g) THEN FCMP_ERROR_NOT_INITIALIZED
    ELSE LET proof_bytes == Prefix(proof.mem, proof_len)
         IN  IF AllZero(proof_bytes) THEN FCMP_ERROR_PROOF_VERIFICATION
             ELSE FCMP_SUCCESS

\* a variant of fcmp_verify without the check of the proof's length
fcmp_verify_any_len(g, tree_root, input, proof, proof_len) ==
    IF tree_root.null \/ input.null \/ proof.null
    THEN FCMP_ERROR_INVALID_PARAM
    ELSE IF IsNone(g) THEN FCMP_ERROR_NOT_INITIALIZED
    ELSE LET proof_bytes == Prefix(proof.mem, proof_len)
         IN  IF AllZero(proof_bytes) THEN FCMP_ERROR_PROOF_VERIFICATION
             ELSE FCMP_SUCCESS

fcmp_verify(g, tree_root, input, proof, proof_len) ==
    IF tree_root.null \/ input.null \/ proof.null
    THEN FCMP_ERROR_INVALID_PARAM
    ELSE IF IsNone(g) THEN FCMP_ERROR_NOT_INITIALIZED
    ELSE IF proof_len < MIN_PROOF_LEN THEN FCMP_ERROR_INVALID_PARAM
    ELSE LET proof_bytes == Prefix(proof.mem, proof_len)
         IN  IF AllZero(proof_bytes) THEN FCMP_ERROR_PROOF_VERIFICATION
             ELSE FCMP_SUCCESS

-----------------------------------------------------------------------------
(* fcmp_version and fcmp_error_string: the string the returned pointer     *)
(* points to, without its terminating NUL                                  *)

fcmp_version == "0.1.0"

fcmp_error_string(code) ==
    CASE code = FCMP_SUCCESS -> "Success"
      [] code = FCMP_ERROR_INVALID_PARAM -> "Invalid parameter"
      [] code = FCMP_ERROR_PROOF_GENERATION -> "Proof generation failed"
      [] code = FCMP_ERROR_PROOF_VERIFICATION -> "Proof verification failed"
      [] code = FCMP_ERROR_MEMORY -> "Memory allocation failed"
      [] code = FCMP_ERROR_INVALID_POINT -> "Invalid curve point"
      [] code = FCMP_ERROR_INVALID_SCALAR -> "Invalid scalar"
      [] code = FCMP_ERROR_NOT_INITIALIZED -> "Library not initialized"
      [] code = FCMP_ERROR_INTERNAL -> "Internal error"
      [] OTHER -> "Unknown error"

-----------------------------------------------------------------------------
(* The arguments the callers pass                                          *)

\* the length of the caller's proof buffer
ProofBufLen == 66
\* the number of caller threads of the concurrent specification
NumThreads == 2
\* the number of entries the history keeps
MaxLog == 5

Threads == 1..NumThreads

\* a 32-byte string: first byte, middle bytes, last byte
Bytes32(first, middle, last) ==
    [i \in 1..SCALAR_SIZE |->
        IF i = 1 THEN first ELSE IF i = SCALAR_SIZE THEN last ELSE middle]

\* what an output buffer holds before a call
Junk(n) == Fill(n, 170)

OutPtr == Ptr(Junk(SCALAR_SIZE))

ScalarSamples ==
    { Bytes32(0, 0, 0), Bytes32(2, 0, 0), Bytes32(255, 255, 255) }

\* the scalars of the specification of fcmp_scalar_add alone
ScalarSamplesWide ==
    ScalarSamples \cup
    { Bytes32(1, 0, 0), Bytes32(255, 255, 127), Bytes32(0, 0, 128),
      Bytes32(1, 255, 0), Bytes32(200, 100, 255) }

DefaultScalar == Ptr(Bytes32(2, 0, 0))

\* two encodings that decompress and two that do not
PointSamples ==
    { ED25519_BASEPOINT_COMPRESSED, Compress(3),
      Zeros(POINT_SIZE), Fill(POINT_SIZE, 255) }

DefaultPoint == Ptr(ED25519_BASEPOINT_COMPRESSED)

\* b"test data", b"other data"
TEST_DATA == <<116, 101, 115, 116, 32, 100, 97, 116, 97>>
OTHER_DATA == <<111, 116, 104, 101, 114, 32, 100, 97, 116, 97>>

\* <<data, data_len>>: a null pointer with and without a length, an empty
\* and two non-empty inputs
DataSamples ==
    { <<NULL, 0>>, <<NULL, 5>>, <<Ptr(<<>>), 0>>,
      <<Ptr(TEST_DATA), Len(TEST_DATA)>>,
      <<Ptr(OTHER_DATA), Len(OTHER_DATA)>> }

\* the outcomes of OsRng.try_fill_bytes
RngSamples ==
    { None, Some(Bytes32(7, 3, 255)), Some(Bytes32(0, 0, 0)) }

U32(n) == NatBytes(n, U32_BYTES)
\* 2^k as a u32
U32Pow2(k) ==
    [i \in 1..U32_BYTES |-> IF i = (k \div 8) + 1 THEN 2 ^ (k % 8) ELSE 0]
U32_MAX == Fill(U32_BYTES, 255)

U32Samples == { U32(0), U32(1), U32(3) }

\* the arguments of the specification of fcmp_proof_size alone
U32SamplesWide ==
    U32Samples \cup { U32(2), U32Pow2(29), U32Pow2(30), U32_MAX }

TreeRoots == { Fill(POINT_SIZE, 17), Fill(POINT_SIZE, 34) }
DefaultRoot == Ptr(Fill(POINT_SIZE, 17))

OutputTuple == Fill(OUTPUT_TUPLE_SIZE, 5)

FcmpBranchLayer(n, elements) == [num_elements |-> n, elements |-> elements]
FcmpBranch(leaf_index, n, layers) ==
    [leaf_index |-> leaf_index, num_layers |-> n, layers |-> layers]

Layer1 == FcmpBranchLayer(1, Ptr(Fill(SCALAR_SIZE, 7)))
Layer2 == FcmpBranchLayer(2, Ptr(Fill(2 * SCALAR_SIZE, 9)))
LayerEmpty == FcmpBranchLayer(0, NULL)
\* elements announced, none there
LayerNullElements == FcmpBranchLayer(1, NULL)

\* a branch is valid iff num_layers > 0, layers is non-null and every layer
\* with num_elements > 0 has a non-null elements pointer (spec 4.5)
ValidBranches ==
    { FcmpBranch(0, 1, Ptr(<<Layer1>>)),
      FcmpBranch(5, 3, Ptr(<<Layer1, LayerEmpty, Layer2>>)) }

InvalidBranches ==
    { FcmpBranch(0, 0, Ptr(<<>>)),
      FcmpBranch(0, 2, NULL),
      FcmpBranch(0, 0, NULL),
      FcmpBranch(1, 2, Ptr(<<Layer1, LayerNullElements>>)) }

\* branches that differ in their leaf index alone, for each of two paths
LeafIndexes == { 0, 1, 5 }
LeafBranches ==
    { FcmpBranch(i, Len(ls), Ptr(ls)) :
        i \in LeafIndexes, ls \in { <<Layer1>>, <<Layer1, Layer2>> } }

\* arguments of fcmp_prove with these branches
ProveLeafArgs ==
    { <<FALSE, FALSE, n, Ptr(r), Ptr(OutputTuple), Ptr(b)>> :
        n \in { PROOF_LEN, ProofBufLen }, r \in TreeRoots,
        b \in LeafBranches }

DefaultBranch == Ptr(FcmpBranch(0, 1, Ptr(<<Layer1>>)))

ProofMaxLens == { 0, PROOF_LEN - 1, PROOF_LEN, ProofBufLen }

\* <<proof_out, proof_len_out, proof_max_len, tree_root, output, branch>>
\* with the two output pointers given as null or not: each pointer null in
\* turn, every capacity, and every root with every branch
ProveArgs ==
    { <<TRUE, FALSE, PROOF_LEN, DefaultRoot, Ptr(OutputTuple), DefaultBranch>>,
      <<FALSE, TRUE, PROOF_LEN, DefaultRoot, Ptr(OutputTuple), DefaultBranch>>,
      <<FALSE, FALSE, PROOF_LEN, NULL, Ptr(OutputTuple), DefaultBranch>>,
      <<FALSE, FALSE, PROOF_LEN, DefaultRoot, NULL, DefaultBranch>>,
      <<FALSE, FALSE, PROOF_LEN, DefaultRoot, Ptr(OutputTuple), NULL>> }
    \cup
    { <<FALSE, FALSE, n, DefaultRoot, Ptr(OutputTuple), Ptr(b)>> :
        n \in ProofMaxLens, b \in ValidBranches \cup InvalidBranches }
    \cup
    { <<FALSE, FALSE, ProofBufLen, Ptr(r), Ptr(OutputTuple), Ptr(b)>> :
        r \in TreeRoots, b \in ValidBranches }

\* every code the library returns, and two it does not
ErrorCodeSamples ==
    { FCMP_SUCCESS, FCMP_ERROR_INVALID_PARAM, FCMP_ERROR_PROOF_GENERATION,
      FCMP_ERROR_PROOF_VERIFICATION, FCMP_ERROR_MEMORY,
      FCMP_ERROR_INVALID_POINT, FCMP_ERROR_INVALID_SCALAR,
      FCMP_ERROR_NOT_INITIALIZED, FCMP_ERROR_INTERNAL, 1, -8 }

FcmpInput ==
    [o_tilde |-> Fill(64, 1), i_tilde |-> Fill(64, 2),
     r |-> Fill(64, 3), c_tilde |-> Fill(64, 4)]

\* proofs that no fcmp_prove call wrote: all zero, zero but for the last
\* byte, and no byte zero
ForgedProofs ==
    { Zeros(ProofBufLen),
      [i \in 1..ProofBufLen |-> IF i = ProofBufLen THEN 1 ELSE 0],
      [i \in 1..ProofBufLen |-> IF i = PROOF_LEN THEN 1 ELSE 0],
      Fill(ProofBufLen, 255) }

ProofLens == { 10, MIN_PROOF_LEN - 1, MIN_PROOF_LEN, ProofBufLen }

-----------------------------------------------------------------------------
(* The calls of a single caller.  Each action is one whole FFI call and    *)
(* records it in call.  The functions that read no state are applied to    *)
(* all their sample arguments once, in the ...Calls sets; an action draws  *)
(* one of these applications.  What becomes of prev and log is up to the   *)
(* specification an action is used in.                                     *)

threadVars == <<pc, tret, frame>>
proofVars == <<proof_out, proof_len_out, proof_for>>

NoCall == [op |-> "none", ret |-> FCMP_SUCCESS]

\* the record of a call that writes through an out pointer; r is its result
OutCall(op, args, out, r) ==
    [op |-> op, args |-> args, ret |-> r.ret, out_null |-> out.null,
     out_before |-> out.mem, out_after |-> r.out]

\* each pointer null in turn, and every pair of samples
BinaryArgs(samples, default) ==
    { <<NULL, default, default>>, <<OutPtr, NULL, default>>,
      <<OutPtr, default, NULL>> }
    \cup { <<OutPtr, Ptr(x), Ptr(y)>> : x \in samples, y \in samples }

ScalarRandomCalls ==
    { OutCall("fcmp_scalar_random", <<rng>>, out,
              fcmp_scalar_random(out, rng)) :
        out \in {NULL, OutPtr}, rng \in RngSamples }

ScalarAddCalls ==
    { OutCall("fcmp_scalar_add", <<x[2], x[3]>>, x[1],
              fcmp_scalar_add(x[1], x[2], x[3])) :
        x \in BinaryArgs(ScalarSamples, DefaultScalar) }

ScalarAddCallsWide ==
    { OutCall("fcmp_scalar_add", <<x[2], x[3]>>, x[1],
              fcmp_scalar_add(x[1], x[2], x[3])) :
        x \in BinaryArgs(ScalarSamplesWide, DefaultScalar) }

ScalarMulCalls ==
    { OutCall("fcmp_scalar_mul", <<x[2], x[3]>>, x[1],
              fcmp_scalar_mul(x[1], x[2], x[3])) :
        x \in BinaryArgs(ScalarSamples, DefaultScalar) }

PointMulCalls ==
    { OutCall("fcmp_point_mul", <<x[2], x[3]>>, x[1],
              fcmp_point_mul(x[1], x[2], x[3])) :
        x \in { <<NULL, DefaultScalar, DefaultPoint>>,
                <<OutPtr, NULL, DefaultPoint>>,
                <<OutPtr, DefaultScalar, NULL>> }
              \cup { <<OutPtr, Ptr(sc), Ptr(p)>> :
                       sc \in ScalarSamples, p \in PointSamples } }

PointAddCalls ==
    { OutCall("fcmp_point_add", <<x[2], x[3]>>, x[1],
              fcmp_point_add(x[1], x[2], x[3])) :
        x \in BinaryArgs(PointSamples, DefaultPoint) }

PointBasepointCalls ==
    { OutCall("fcmp_point_basepoint", <<>>, out, fcmp_point_basepoint(out)) :
        out \in {NULL, OutPtr} }

PointIsValidCalls ==
    { [op |-> "fcmp_point_is_valid", args |-> <<point>>,
       ret |-> fcmp_point_is_valid(point)] :
        point \in {NULL} \cup { Ptr(p) : p \in PointSamples } }

\* the calls that hash: <<key, call>> for every member of the hash family
HashToScalarCalls ==
    { <<key, OutCall("fcmp_hash_to_scalar", d, out,
                     fcmp_hash_to_scalar(key, out, d[1], d[2]))>> :
        key \in HashKeys, out \in {NULL, OutPtr}, d \in DataSamples }

HashToPointCalls ==
    { <<key, OutCall("fcmp_hash_to_point", d, out,
                     fcmp_hash_to_point(key, out, d[1], d[2]))>> :
        key \in HashKeys, out \in {NULL, OutPtr}, d \in DataSamples }

PedersenCommitCalls ==
    { <<key, OutCall("fcmp_pedersen_commit", <<x[2], x[3]>>, x[1],
                     fcmp_pedersen_commit(key, x[1], x[2], x[3]))>> :
        key \in HashKeys, x \in BinaryArgs(ScalarSamples, DefaultScalar) }

ProofSizeCall(overflow_checks, num_inputs, num_layers) ==
    LET r == fcmp_proof_size(overflow_checks, num_inputs, num_layers)
    IN  [op |-> "fcmp_proof_size", args |-> <<num_inputs, num_layers>>,
         overflow_checks |-> overflow_checks, aborted |-> r.aborted,
         ret |-> r.value]

ProofSizeCalls ==
    { ProofSizeCall(oc, ni, nl) :
        oc \in BOOLEAN, ni \in U32Samples, nl \in U32Samples }

ProofSizeCallsWide ==
    { ProofSizeCall(oc, ni, nl) :
        oc \in BOOLEAN, ni \in U32SamplesWide, nl \in U32SamplesWide }

VersionCalls == { [op |-> "fcmp_version", args |-> <<>>, ret |-> fcmp_version] }

ErrorStringCalls ==
    { [op |-> "fcmp_error_string", args |-> <<code>>,
       ret |-> fcmp_error_string(code)] : code \in ErrorCodeSamples }

\* The caller passes a fresh buffer and a fresh length cell (or null); r is
\* the result of fcmp_prove.
ProveCall(g, key, x) ==
    LET proof_out_p == IF x[1] THEN NULL ELSE Ptr(Junk(ProofBufLen))
        proof_len_out_p == IF x[2] THEN NULL ELSE Ptr(0)
        r == fcmp_prove(g, key, proof_out_p, proof_len_out_p, x[3], x[4],
                        x[5], x[6])
    IN  [op |-> "fcmp_prove", ret |-> r.ret, initialized |-> IsSome(g),
         out_null |-> x[1], len_null |-> x[2], proof_max_len |-> x[3],
         tree_root |-> x[4], output |-> x[5], branch |-> x[6],
         proof_before |-> proof_out_p.mem, proof_after |-> r.proof_out,
         len_before |-> proof_len_out_p.mem, len_after |-> r.proof_len_out]

\* <<g, key, call>> for both values of GLOBAL_PARAMS and every key
ProveCalls ==
    { <<g, key, ProveCall(g, key, x)>> :
        g \in {None, Some(FcmpParams)}, key \in HashKeys, x \in ProveArgs }

ProveLeafCalls ==
    { <<g, key, ProveCall(g, key, x)>> :
        g \in {None, Some(FcmpParams)}, key \in HashKeys,
        x \in ProveLeafArgs }

\* a variant of Record that drops the parameters
Record_dropping_params(c) ==
    /\ call' = c
    /\ GLOBAL_PARAMS' = None
    /\ UNCHANGED <<blake2_key, proofVars, threadVars>>

\* a call that changes nothing but call
Record(c) ==
    /\ call' = c
    /\ UNCHANGED <<GLOBAL_PARAMS, blake2_key, proofVars, threadVars>>

Do_fcmp_init ==
    LET r == fcmp_init(GLOBAL_PARAMS)
    IN  /\ GLOBAL_PARAMS' = r.params
        /\ call' = [op |-> "fcmp_init", ret |-> r.ret]
        /\ UNCHANGED <<blake2_key, proofVars, threadVars>>

Do_fcmp_cleanup ==
    /\ GLOBAL_PARAMS' = fcmp_cleanup(GLOBAL_PARAMS)
    /\ call' = [op |-> "fcmp_cleanup", ret |-> FCMP_SUCCESS]
    /\ UNCHANGED <<blake2_key, proofVars, threadVars>>

Do_fcmp_is_initialized ==
    Record([op |-> "fcmp_is_initialized",
            ret |-> fcmp_is_initialized(GLOBAL_PARAMS)])

\* the caller's buffer and length cell are what the call left behind, and
\* on success the buffer holds a proof for the root and output passed
Do_fcmp_prove(c) ==
    /\ call' = c
    /\ proof_out' = c.proof_after
    /\ proof_len_out' = c.len_after
    /\ proof_for' = IF c.ret = FCMP_SUCCESS
                    THEN Some([tree_root |-> c.tree_root.mem,
                               output |-> c.output.mem])
                    ELSE None
    /\ UNCHANGED <<GLOBAL_PARAMS, blake2_key, threadVars>>

\* origin is what the proof was proven for when it is the one fcmp_prove
\* wrote, and None for a proof from elsewhere
Do_fcmp_verify(tree_root, input, proof, proof_len, origin) ==
    Record([op |-> "fcmp_verify",
            ret |-> fcmp_verify(GLOBAL_PARAMS, tree_root, input, proof,
                                proof_len),
            initialized |-> IsSome(GLOBAL_PARAMS),
            tree_root |-> tree_root, input_null |-> input.null,
            proof |-> proof, proof_len |-> proof_len, origin |-> origin])

-----------------------------------------------------------------------------
(* Spec: one caller, any sequence of calls                                 *)

Init ==
    /\ GLOBAL_PARAMS = None
    /\ blake2_key \in HashKeys
    /\ call = NoCall
    /\ prev = NoCall
    /\ proof_out = <<>>
    /\ proof_len_out = 0
    /\ proof_for = None
    /\ log = <<>>
    /\ pc = [t \in Threads |-> "idle"]
    /\ tret = [t \in Threads |-> FCMP_SUCCESS]
    /\ frame = None

Init_Call == Do_fcmp_init /\ UNCHANGED <<prev, log>>
Cleanup_Call == Do_fcmp_cleanup /\ UNCHANGED <<prev, log>>
IsInitialized_Call == Do_fcmp_is_initialized /\ UNCHANGED <<prev, log>>

ScalarRandom_Call == \E c \in ScalarRandomCalls : Record(c) /\ UNCHANGED <<prev, log>>
ScalarAdd_Call == \E c \in ScalarAddCalls : Record(c) /\ UNCHANGED <<prev, log>>
ScalarMul_Call == \E c \in ScalarMulCalls : Record(c) /\ UNCHANGED <<prev, log>>
PointMul_Call == \E c \in PointMulCalls : Record(c) /\ UNCHANGED <<prev, log>>
PointAdd_Call == \E c \in PointAddCalls : Record(c) /\ UNCHANGED <<prev, log>>
PointBasepoint_Call ==
    \E c \in PointBasepointCalls : Record(c) /\ UNCHANGED <<prev, log>>
PointIsValid_Call == \E c \in PointIsValidCalls : Record(c) /\ UNCHANGED <<prev, log>>

HashToScalar_Call ==
    \E e \in HashToScalarCalls :
        e[1] = blake2_key /\ Record(e[2]) /\ UNCHANGED <<prev, log>>

HashToPoint_Call ==
    \E e \in HashToPointCalls :
        e[1] = blake2_key /\ Record(e[2]) /\ UNCHANGED <<prev, log>>

PedersenCommit_Call ==
    \E e \in PedersenCommitCalls :
        e[1] = blake2_key /\ Record(e[2]) /\ UNCHANGED <<prev, log>>

ProofSize_Call == \E c \in ProofSizeCalls : Record(c) /\ UNCHANGED <<prev, log>>

Version_Call == \E c \in VersionCalls : Record(c) /\ UNCHANGED <<prev, log>>
ErrorString_Call ==
    \E c \in ErrorStringCalls : Record(c) /\ UNCHANGED <<prev, log>>

Prove_Call ==
    \E e \in ProveCalls :
        /\ e[1] = GLOBAL_PARAMS
        /\ e[2] = blake2_key
        /\ Do_fcmp_prove(e[3])
        /\ UNCHANGED <<prev, log>>

\* the proof is the one in the caller's buffer, with the length fcmp_prove
\* reported or another one
VerifyProved_Call ==
    /\ IsSome(proof_for)
    /\ \E r \in TreeRoots, n \in ProofLens \cup {proof_len_out} :
          Do_fcmp_verify(Ptr(r), Ptr(FcmpInput), Ptr(proof_out), n,
                         IF n = proof_len_out THEN proof_for ELSE None)
    /\ UNCHANGED <<prev, log>>

\* the proof is one that no fcmp_prove call wrote
VerifyForged_Call ==
    /\ \E p \in ForgedProofs, n \in ProofLens :
          Do_fcmp_verify(DefaultRoot, Ptr(FcmpInput), Ptr(p), n, None)
    /\ UNCHANGED <<prev, log>>

\* each pointer null in turn
VerifyNull_Call ==
    /\ \E x \in { <<NULL, Ptr(FcmpInput), Ptr(Fill(ProofBufLen, 255))>>,
                  <<DefaultRoot, NULL, Ptr(Fill(ProofBufLen, 255))>>,
                  <<DefaultRoot, Ptr(FcmpInput), NULL>> },
          n \in { 10, ProofBufLen } :
          Do_fcmp_verify(x[1], x[2], x[3], n, None)
    /\ UNCHANGED <<prev, log>>

Next ==
    \/ Init_Call
    \/ Cleanup_Call
    \/ IsInitialized_Call
    \/ ScalarRandom_Call
    \/ ScalarAdd_Call
    \/ ScalarMul_Call
    \/ PointMul_Call
    \/ PointAdd_Call
    \/ PointBasepoint_Call
    \/ PointIsValid_Call
    \/ HashToScalar_Call
    \/ HashToPoint_Call
    \/ PedersenCommit_Call
    \/ ProofSize_Call
    \/ Version_Call
    \/ ErrorString_Call
    \/ Prove_Call
    \/ VerifyProved_Call
    \/ VerifyForged_Call
    \/ VerifyNull_Call

Spec == Init /\ [][Next]_vars


-----------------------------------------------------------------------------
(* SpecLifecycle: one caller, the lifecycle calls alone, with the sequence *)
(* of fcmp_init and fcmp_cleanup calls kept in log                         *)

Lifecycle_Init ==
    /\ Len(log) < MaxLog
    /\ Do_fcmp_init
    /\ log' = Append(log, "fcmp_init")
    /\ UNCHANGED prev

Lifecycle_Cleanup ==
    /\ Len(log) < MaxLog
    /\ Do_fcmp_cleanup
    /\ log' = Append(log, "fcmp_cleanup")
    /\ UNCHANGED prev

Lifecycle_IsInitialized == Do_fcmp_is_initialized /\ UNCHANGED <<prev, log>>

NextLifecycle ==
    \/ Lifecycle_Init
    \/ Lifecycle_Cleanup
    \/ Lifecycle_IsInitialized

SpecLifecycle == Init /\ [][NextLifecycle]_vars

-----------------------------------------------------------------------------
(* SpecThreads: several threads call into the library at once.  Nothing    *)
(* guards GLOBAL_PARAMS (a static mut), so a step is one access to it:     *)
(* fcmp_init reads it, and when it saw None stores to it in a later step.  *)
(* Each access is taken to be one whole load or store of the word; a build *)
(* may do worse with the race, which only adds behaviours.  log keeps the  *)
(* stores, <<thread, function>>, in order.                                 *)

\* GLOBAL_PARAMS.is_some(), the check of fcmp_init
Thread_InitCheck(t) ==
    /\ pc[t] = "idle"
    /\ IF IsSome(GLOBAL_PARAMS)
       THEN /\ tret' = [tret EXCEPT ![t] = fcmp_init(GLOBAL_PARAMS).ret]
            /\ pc' = pc
       ELSE /\ pc' = [pc EXCEPT ![t] = "init_store"]
            /\ tret' = tret
    /\ UNCHANGED <<GLOBAL_PARAMS, blake2_key, call, prev, proofVars, log,
                   frame>>

\* GLOBAL_PARAMS = Some(params), by a thread whose check saw None
Thread_InitStore(t) ==
    /\ pc[t] = "init_store"
    /\ Len(log) < MaxLog
    /\ GLOBAL_PARAMS' = fcmp_init(None).params
    /\ tret' = [tret EXCEPT ![t] = fcmp_init(None).ret]
    /\ pc' = [pc EXCEPT ![t] = "idle"]
    /\ log' = Append(log, <<t, "fcmp_init">>)
    /\ UNCHANGED <<blake2_key, call, prev, proofVars, frame>>

\* GLOBAL_PARAMS = None
Thread_Cleanup(t) ==
    /\ pc[t] = "idle"
    /\ Len(log) < MaxLog
    /\ GLOBAL_PARAMS' = fcmp_cleanup(GLOBAL_PARAMS)
    /\ log' = Append(log, <<t, "fcmp_cleanup">>)
    /\ UNCHANGED <<blake2_key, call, prev, proofVars, threadVars>>

Thread_IsInitialized(t) ==
    /\ pc[t] = "idle"
    /\ tret' = [tret EXCEPT ![t] = fcmp_is_initialized(GLOBAL_PARAMS)]
    /\ UNCHANGED <<GLOBAL_PARAMS, blake2_key, call, prev, proofVars, log, pc,
                   frame>>

\* fcmp_verify reads GLOBAL_PARAMS once
Thread_Verify(t) ==
    /\ pc[t] = "idle"
    /\ tret' = [tret EXCEPT ![t] =
                  fcmp_verify(GLOBAL_PARAMS, DefaultRoot, Ptr(FcmpInput),
                              Ptr(Fill(ProofBufLen, 255)), ProofBufLen)]
    /\ UNCHANGED <<GLOBAL_PARAMS, blake2_key, call, prev, proofVars, log, pc,
                   frame>>

NextThreads ==
    \E t \in Threads :
        \/ Thread_InitCheck(t)
        \/ Thread_InitStore(t)
        \/ Thread_Cleanup(t)
        \/ Thread_IsInitialized(t)
        \/ Thread_Verify(t)

SpecThreads == Init /\ [][NextThreads]_vars

-----------------------------------------------------------------------------
(* SpecScalarAdd and SpecProofSize: a pure function applied again and      *)
(* again to arguments from a wider set; call is the last application and   *)
(* prev the one before it                                                  *)

ScalarAdd_Apply ==
    \E c \in ScalarAddCallsWide :
        /\ call' = c
        /\ prev' = call
        /\ UNCHANGED <<GLOBAL_PARAMS, blake2_key, proofVars, log, threadVars>>

NextScalarAdd == ScalarAdd_Apply

SpecScalarAdd == Init /\ [][NextScalarAdd]_vars

ProofSize_Apply ==
    \E c \in ProofSizeCallsWide :
        /\ call' = c
        /\ prev' = call
        /\ UNCHANGED <<GLOBAL_PARAMS, blake2_key, proofVars, log, threadVars>>

NextProofSize == ProofSize_Apply

SpecProofSize == Init /\ [][NextProofSize]_vars

-----------------------------------------------------------------------------
(* SpecHashToPoint: fcmp_hash_to_point called again and again, its retry   *)
(* loop taken one round at a step.  frame holds the arguments and the      *)
(* seeded hasher of the call that runs, log the counters it has tried;     *)
(* call is the last call that returned and prev the one before it.         *)

\* the call with out pointer out and input d returns with result r
HashToPoint_Return(out, d, r) ==
    /\ call' = OutCall("fcmp_hash_to_point", d, out, r)
    /\ prev' = call
    /\ pc' = [pc EXCEPT ![1] = "idle"]
    /\ frame' = None

\* the parameter check, the first hash and let mut attempt
HashToPoint_Enter ==
    /\ pc[1] = "idle"
    /\ log' = <<>>
    /\ \E out \in {NULL, OutPtr}, d \in DataSamples :
          IF out.null \/ (d[1].null /\ d[2] > 0)
          THEN HashToPoint_Return(out, d,
                   [ret |-> FCMP_ERROR_INVALID_PARAM, out |-> out.mem])
          ELSE /\ frame' = Some([out |-> out, data |-> d,
                                 seeded |-> HashToPointSeed(blake2_key,
                                                InputSlice(d[1], d[2]))])
               /\ pc' = [pc EXCEPT ![1] = "h2p_loop"]
               /\ UNCHANGED <<call, prev>>
    /\ UNCHANGED <<GLOBAL_PARAMS, blake2_key, proofVars, tret>>

\* one round of for i in 0..=255u8, with i the number of rounds made
HashToPoint_Attempt ==
    /\ pc[1] = "h2p_loop"
    /\ Len(log) <= LAST_ATTEMPT
    /\ LET f == Unwrap(frame)
           i == Len(log)
           point == Candidate(blake2_key, f.seeded, i)
       IN  /\ log' = Append(log, i)
           /\ IF IsSome(point)
              THEN LET result == MulByCofactor(Unwrap(point))
                   IN  HashToPoint_Return(f.out, f.data,
                           [ret |-> FCMP_SUCCESS,
                            out |-> CopyNonoverlapping(Compress(result),
                                        f.out.mem, POINT_SIZE)])
              ELSE UNCHANGED <<call, prev, pc, frame>>
    /\ UNCHANGED <<GLOBAL_PARAMS, blake2_key, proofVars, tret>>

\* the loop is over: FCMP_ERROR_INTERNAL
HashToPoint_Exhausted ==
    /\ pc[1] = "h2p_loop"
    /\ Len(log) > LAST_ATTEMPT
    /\ LET f == Unwrap(frame)
       IN  HashToPoint_Return(f.out, f.data,
               [ret |-> FCMP_ERROR_INTERNAL, out |-> f.out.mem])
    /\ UNCHANGED <<GLOBAL_PARAMS, blake2_key, proofVars, tret, log>>

NextHashToPoint ==
    \/ HashToPoint_Enter
    \/ HashToPoint_Attempt
    \/ HashToPoint_Exhausted

SpecHashToPoint == Init /\ [][NextHashToPoint]_vars

-----------------------------------------------------------------------------
(* SpecProveLeaf: fcmp_init, and fcmp_prove called again and again with    *)
(* branches that differ in their leaf index; call is the last call and     *)
(* prev the one before it                                                  *)

ProveLeaf_Apply ==
    \E e \in ProveLeafCalls :
        /\ e[1] = GLOBAL_PARAMS
        /\ e[2] = blake2_key
        /\ Do_fcmp_prove(e[3])
        /\ prev' = call
        /\ UNCHANGED log

NextProveLeaf ==
    \/ Init_Call
    \/ ProveLeaf_Apply

SpecProveLeaf == Init /\ [][NextProveLeaf]_vars

-----------------------------------------------------------------------------
(* Properties                                                              *)

\* the last entry of log is op
LastLifecycleCall(op) == Len(log) > 0 /\ log[Len(log)] = op

\* C1: in every sequence of fcmp_init and fcmp_cleanup calls of one caller,
\* starting uninitialized, every fcmp_init returns FCMP_SUCCESS, and
\* fcmp_is_initialized returns 1 exactly when the last call of the sequence
\* was fcmp_init (0 after no call at all).
C1_LastLifecycleCallDecides ==
    /\ call.op = "fcmp_init" => call.ret = FCMP_SUCCESS
    /\ fcmp_is_initialized(GLOBAL_PARAMS) = 1
           <=> LastLifecycleCall("fcmp_init")
    /\ call.op = "fcmp_is_initialized" =>
           /\ call.ret \in {0, 1}
           /\ call.ret = 1 <=> LastLifecycleCall("fcmp_init")

\* C1 is exercised: cleanup while uninitialized, init twice, cleanup, init
\* again, and then fcmp_is_initialized returned 1
C1_ReinitializedAfterCleanup ==
    /\ log = <<"fcmp_cleanup", "fcmp_init", "fcmp_init", "fcmp_cleanup",
               "fcmp_init">>
    /\ call.op = "fcmp_is_initialized"
    /\ call.ret = 1

\* a pointer argument of the fcmp_prove call c is null
ProveNullArg(c) ==
    \/ c.out_null \/ c.len_null
    \/ c.tree_root.null \/ c.output.null \/ c.branch.null

\* a pointer argument of the fcmp_verify call c is null
VerifyNullArg(c) == c.tree_root.null \/ c.input_null \/ c.proof.null

\* the fcmp_prove call c left the proof buffer and the length cell alone
ProveOutputsUntouched(c) ==
    /\ c.proof_after = c.proof_before
    /\ c.len_after = c.len_before

\* C2 as the specification states it: while uninitialized, fcmp_prove and
\* fcmp_verify return FCMP_ERROR_NOT_INITIALIZED for every input, null
\* pointers included, and modify no output.
C2_UninitializedAlwaysNotInitialized ==
    /\ (call.op = "fcmp_prove" /\ ~call.initialized) =>
           /\ call.ret = FCMP_ERROR_NOT_INITIALIZED
           /\ ProveOutputsUntouched(call)
    /\ (call.op = "fcmp_verify" /\ ~call.initialized) =>
           call.ret = FCMP_ERROR_NOT_INITIALIZED

\* C2 as the code has it: while uninitialized, fcmp_prove and fcmp_verify
\* return FCMP_ERROR_INVALID_PARAM when one of their pointer arguments is
\* null and FCMP_ERROR_NOT_INITIALIZED otherwise, whatever the branch, the
\* capacity or the proof's length are, and modify no output.
C2_UninitializedNullCheckedFirst ==
    /\ (call.op = "fcmp_prove" /\ ~call.initialized) =>
           /\ call.ret = IF ProveNullArg(call)
                         THEN FCMP_ERROR_INVALID_PARAM
                         ELSE FCMP_ERROR_NOT_INITIALIZED
           /\ ProveOutputsUntouched(call)
    /\ (call.op = "fcmp_verify" /\ ~call.initialized) =>
           call.ret = IF VerifyNullArg(call)
                      THEN FCMP_ERROR_INVALID_PARAM
                      ELSE FCMP_ERROR_NOT_INITIALIZED

\* C2 is exercised: an uninitialized fcmp_verify with no null pointer and a
\* proof that is too short returned FCMP_ERROR_NOT_INITIALIZED
C2_UninitializedShortProof ==
    /\ call.op = "fcmp_verify"
    /\ ~call.initialized
    /\ ~VerifyNullArg(call)
    /\ call.proof_len < MIN_PROOF_LEN
    /\ call.ret = FCMP_ERROR_NOT_INITIALIZED

\* C3: the check and the store of fcmp_init are one atomic step when threads
\* call lifecycle functions at once: no thread checks GLOBAL_PARAMS while
\* another is between its check and its store, and no fcmp_init stores over
\* the parameters another fcmp_init has stored.
C3_InitCheckAndStoreAtomic ==
    /\ Cardinality({ t \in Threads : pc[t] = "init_store" }) <= 1
    /\ \A i \in 1..(Len(log) - 1) :
           ~(log[i][2] = "fcmp_init" /\ log[i + 1][2] = "fcmp_init")

\* C4: fcmp_verify returns FCMP_SUCCESS only for a proof of at least 64
\* bytes with a byte that is not zero; initialized and with no null pointer
\* it returns FCMP_ERROR_INVALID_PARAM when proof_len < 64 and
\* FCMP_ERROR_PROOF_VERIFICATION when all proof_len >= 64 bytes are zero.
C4_VerifyRejectsShortAndZero ==
    call.op = "fcmp_verify" =>
        /\ call.ret = FCMP_SUCCESS =>
               /\ call.proof_len >= 64
               /\ \E i \in 1..call.proof_len : call.proof.mem[i] # 0
        /\ (call.initialized /\ ~VerifyNullArg(call)) =>
               /\ call.proof_len < 64 =>
                      call.ret = FCMP_ERROR_INVALID_PARAM
               /\ (/\ call.proof_len >= 64
                   /\ \A i \in 1..call.proof_len : call.proof.mem[i] = 0) =>
                      call.ret = FCMP_ERROR_PROOF_VERIFICATION

\* C4 is exercised: an all-zero proof longer than 64 bytes was rejected
C4_ZeroProofRejected ==
    /\ call.op = "fcmp_verify"
    /\ call.initialized
    /\ ~VerifyNullArg(call)
    /\ call.proof_len > 64
    /\ \A i \in 1..call.proof_len : call.proof.mem[i] = 0
    /\ call.ret = FCMP_ERROR_PROOF_VERIFICATION

\* C5: fcmp_verify returns FCMP_SUCCESS only for a proof that links the
\* input to the tree root passed: one that fcmp_prove produced for that
\* root.
C5_VerifyAcceptsOnlyProofsForTheRoot ==
    (call.op = "fcmp_verify" /\ call.ret = FCMP_SUCCESS) =>
        /\ IsSome(call.origin)
        /\ Unwrap(call.origin).tree_root = call.tree_root.mem

\* the branch validity of the specification: at least one layer, a layer
\* array, and elements behind every layer that counts some
ValidBranch(b) ==
    /\ b.num_layers > 0
    /\ ~b.layers.null
    /\ \A i \in 1..b.num_layers :
          b.layers.mem[i].num_elements > 0 => ~b.layers.mem[i].elements.null

\* C6: initialized and with no null pointer argument, fcmp_prove returns
\* FCMP_ERROR_INVALID_PARAM for a branch that is not valid (no layer, no
\* layer array, or a layer that counts elements and has none) and leaves
\* its outputs alone.
C6_ProveRejectsInvalidBranch ==
    (/\ call.op = "fcmp_prove"
     /\ call.initialized
     /\ ~ProveNullArg(call)
     /\ ~ValidBranch(call.branch.mem)) =>
        /\ call.ret = FCMP_ERROR_INVALID_PARAM
        /\ ProveOutputsUntouched(call)

OutOps ==
    { "fcmp_scalar_random", "fcmp_scalar_add", "fcmp_scalar_mul",
      "fcmp_point_mul", "fcmp_point_add", "fcmp_point_basepoint",
      "fcmp_hash_to_scalar", "fcmp_hash_to_point", "fcmp_pedersen_commit" }

\* C8: a call that returns another code than FCMP_SUCCESS leaves its output
\* untouched: the out buffer of the scalar, point and hash functions, and
\* the proof buffer and the length cell of fcmp_prove.
C8_FailuresLeaveOutputsUntouched ==
    /\ (call.op \in OutOps /\ call.ret # FCMP_SUCCESS) =>
           call.out_after = call.out_before
    /\ (call.op = "fcmp_prove" /\ call.ret # FCMP_SUCCESS) =>
           ProveOutputsUntouched(call)

\* C8 is exercised: fcmp_prove got past all its checks but that of the
\* capacity and returned FCMP_ERROR_MEMORY
C8_ProveFailedOnCapacity ==
    /\ call.op = "fcmp_prove"
    /\ call.ret = FCMP_ERROR_MEMORY
    /\ Len(call.proof_before) > 0
    /\ call.proof_after = call.proof_before

\* the application c of fcmp_proof_size has two positive arguments
PositiveArgs(c) == ~IsZero(c.args[1]) /\ ~IsZero(c.args[2])

\* C9: fcmp_proof_size returns 0 when an argument is 0, and over the whole
\* u32 range it returns a size that does not decrease when an argument
\* grows, both positive: the product never wraps.
C9_ProofSizeMonotone ==
    call.op = "fcmp_proof_size" =>
        /\ ~call.aborted
        /\ ~PositiveArgs(call) => IsZero(call.ret)
        /\ (/\ prev.op = "fcmp_proof_size"
            /\ prev.overflow_checks = call.overflow_checks
            /\ PositiveArgs(prev)
            /\ LessEq(prev.args[1], call.args[1])
            /\ LessEq(prev.args[2], call.args[2])) =>
               /\ ~prev.aborted
               /\ LessEq(prev.ret, call.ret)

\* the application c of fcmp_scalar_add has no null pointer
ScalarAddApplied(c) ==
    /\ c.op = "fcmp_scalar_add"
    /\ ~c.out_null /\ ~c.args[1].null /\ ~c.args[2].null

\* C10: fcmp_scalar_add is commutative, add(a, b) and add(b, a) write the
\* same 32 bytes and return FCMP_SUCCESS, and the top bit of the last byte
\* written is clear.
C10_ScalarAddCommutes ==
    ScalarAddApplied(call) =>
        /\ call.ret = FCMP_SUCCESS
        /\ Len(call.out_after) = SCALAR_SIZE
        /\ \A i \in 1..SCALAR_SIZE : call.out_after[i] \in 0..255
        /\ call.out_after[SCALAR_SIZE] < 128
        /\ (/\ ScalarAddApplied(prev)
            /\ prev.args = <<call.args[2], call.args[1]>>) =>
               prev.out_after = call.out_after

\* C10 is exercised: add(a, b) came after add(b, a) for two different
\* scalars whose last bytes sum to more than 127
C10_SwappedArgumentsApplied ==
    /\ ScalarAddApplied(call)
    /\ ScalarAddApplied(prev)
    /\ prev.args = <<call.args[2], call.args[1]>>
    /\ call.args[1] # call.args[2]
    /\ call.args[1].mem[SCALAR_SIZE] + call.args[2].mem[SCALAR_SIZE] > 127

\* the fcmp_hash_to_point call c failed its parameter check
HashToPointInvalid(c) ==
    c.out_null \/ (c.args[1].null /\ c.args[2] > 0)

\* candidate i of the fcmp_hash_to_point call c
CandidateOf(c, i) ==
    Candidate(blake2_key,
              HashToPointSeed(blake2_key, InputSlice(c.args[1], c.args[2])),
              i)

\* C11: fcmp_hash_to_point tries the counters 0, 1, 2, ... in this order
\* and at most 256 of them, and goes on to the next only when the last one
\* did not decompress.  It returns FCMP_SUCCESS with the cofactor multiple
\* of the first candidate that decompresses, and FCMP_ERROR_INTERNAL, after
\* 256 rounds, exactly when no candidate does.  The result is the one the
\* closed form fcmp_hash_to_point gives, and two calls with the same input
\* bytes return the same code and write the same output.
C11_HashToPointFirstCandidate ==
    /\ Len(log) <= LAST_ATTEMPT + 1
    /\ \A i \in 1..Len(log) : log[i] = i - 1
    /\ pc[1] = "h2p_loop" =>
           /\ IsSome(frame)
           /\ Len(log) > 0 =>
                  IsNone(Candidate(blake2_key, Unwrap(frame).seeded,
                                   log[Len(log)]))
    /\ (pc[1] = "idle" /\ call.op = "fcmp_hash_to_point") =>
           /\ <<blake2_key, call>> \in HashToPointCalls
           /\ call.ret = FCMP_ERROR_INVALID_PARAM <=> HashToPointInvalid(call)
           /\ call.ret = FCMP_SUCCESS =>
                  /\ Len(log) > 0
                  /\ \A j \in 0..(Len(log) - 2) : IsNone(CandidateOf(call, j))
                  /\ IsSome(CandidateOf(call, Len(log) - 1))
                  /\ Prefix(call.out_after, POINT_SIZE) =
                         Compress(MulByCofactor(
                             Unwrap(CandidateOf(call, Len(log) - 1))))
           /\ call.ret = FCMP_ERROR_INTERNAL <=>
                  /\ ~HashToPointInvalid(call)
                  /\ \A j \in 0..LAST_ATTEMPT : IsNone(CandidateOf(call, j))
           /\ call.ret = FCMP_ERROR_INTERNAL => Len(log) = LAST_ATTEMPT + 1
           /\ call.ret # FCMP_SUCCESS => call.out_after = call.out_before
           /\ (/\ prev.op = "fcmp_hash_to_point"
               /\ ~HashToPointInvalid(prev)
               /\ ~HashToPointInvalid(call)
               /\ InputSlice(prev.args[1], prev.args[2]) =
                      InputSlice(call.args[1], call.args[2])) =>
                  /\ prev.ret = call.ret
                  /\ prev.out_after = call.out_after

\* C11 is exercised: a call returned the point of a candidate that was not
\* the first one tried
C11_LaterCandidateTaken ==
    /\ pc[1] = "idle"
    /\ call.op = "fcmp_hash_to_point"
    /\ call.ret = FCMP_SUCCESS
    /\ Len(log) > 1

\* C12: initialized, fcmp_verify returns FCMP_SUCCESS for the proof that a
\* successful fcmp_prove wrote, passed with the length fcmp_prove reported
\* (which is 64) and with non-null tree_root and input, when the proof is
\* not all zero.  (A digest of 64 zero bytes would be written by fcmp_prove
\* and rejected by fcmp_verify.)
C12_ProvedProofAccepted ==
    (/\ call.op = "fcmp_verify"
     /\ IsSome(call.origin)
     /\ call.initialized
     /\ ~VerifyNullArg(call)
     /\ \E i \in 1..64 : call.proof.mem[i] # 0) =>
        /\ call.proof_len = 64
        /\ call.ret = FCMP_SUCCESS

\* C12 is exercised: a proof from fcmp_prove was verified against the root
\* it was made for and accepted
C12_ProofVerifiedAfterProve ==
    /\ call.op = "fcmp_verify"
    /\ IsSome(call.origin)
    /\ Unwrap(call.origin).tree_root = call.tree_root.mem
    /\ call.initialized
    /\ call.proof_len = 64
    /\ call.ret = FCMP_SUCCESS

\* the functions that have no business with GLOBAL_PARAMS
FrameOps ==
    OutOps \cup { "fcmp_point_is_valid", "fcmp_proof_size", "fcmp_version",
                  "fcmp_error_string" }

\* c is an application of a function of FrameOps as its arguments and the
\* hash function alone determine it
FrameCall(c) ==
    CASE c.op = "fcmp_scalar_random" -> c \in ScalarRandomCalls
      [] c.op = "fcmp_scalar_add" -> c \in ScalarAddCalls
      [] c.op = "fcmp_scalar_mul" -> c \in ScalarMulCalls
      [] c.op = "fcmp_point_mul" -> c \in PointMulCalls
      [] c.op = "fcmp_point_add" -> c \in PointAddCalls
      [] c.op = "fcmp_point_basepoint" -> c \in PointBasepointCalls
      [] c.op = "fcmp_point_is_valid" -> c \in PointIsValidCalls
      [] c.op = "fcmp_hash_to_scalar" ->
             <<blake2_key, c>> \in HashToScalarCalls
      [] c.op = "fcmp_hash_to_point" -> <<blake2_key, c>> \in HashToPointCalls
      [] c.op = "fcmp_pedersen_commit" ->
             <<blake2_key, c>> \in PedersenCommitCalls
      [] c.op = "fcmp_proof_size" -> c \in ProofSizeCalls
      [] c.op = "fcmp_version" -> c \in VersionCalls
      [] c.op = "fcmp_error_string" -> c \in ErrorStringCalls
      [] OTHER -> FALSE

\* C13: a scalar, point, hash, commitment, proof-size, version or
\* error-string call leaves GLOBAL_PARAMS, and so the value of
\* fcmp_is_initialized, as it was, and returns what its arguments alone
\* determine, initialized or not; fcmp_prove and fcmp_verify read
\* GLOBAL_PARAMS and leave it as it was; only fcmp_init and fcmp_cleanup
\* change it.
C13_OnlyLifecycleChangesParameters ==
    [][/\ call'.op \in FrameOps =>
              /\ GLOBAL_PARAMS' = GLOBAL_PARAMS
              /\ fcmp_is_initialized(GLOBAL_PARAMS') =
                     fcmp_is_initialized(GLOBAL_PARAMS)
              /\ FrameCall(call')
       /\ call'.op \in {"fcmp_prove", "fcmp_verify"} =>
              /\ GLOBAL_PARAMS' = GLOBAL_PARAMS
              /\ call'.initialized = IsSome(GLOBAL_PARAMS)
       /\ call'.op = "fcmp_is_initialized" => GLOBAL_PARAMS' = GLOBAL_PARAMS
       /\ GLOBAL_PARAMS' # GLOBAL_PARAMS =>
              call'.op \in {"fcmp_init", "fcmp_cleanup"}]_vars

\* C13 is exercised: a commitment was computed while the library was
\* initialized, and it still is
C13_CommitWhileInitialized ==
    /\ call.op = "fcmp_pedersen_commit"
    /\ call.ret = FCMP_SUCCESS
    /\ IsSome(GLOBAL_PARAMS)

\* the fcmp_prove calls c and d succeeded on the same tree root, output
\* tuple and layers
SameProveInput(c, d) ==
    /\ c.op = "fcmp_prove" /\ d.op = "fcmp_prove"
    /\ c.ret = FCMP_SUCCESS /\ d.ret = FCMP_SUCCESS
    /\ c.tree_root.mem = d.tree_root.mem
    /\ c.output.mem = d.output.mem
    /\ c.branch.mem.num_layers = d.branch.mem.num_layers
    /\ c.branch.mem.layers = d.branch.mem.layers

\* C14: two successful fcmp_prove calls with the same tree root, output
\* tuple and layers write the same proof bytes and the same proof length,
\* whatever the leaf indexes of their branches are.
C14_ProofIgnoresLeafIndex ==
    SameProveInput(prev, call) =>
        /\ call.len_after = prev.len_after
        /\ Prefix(call.proof_after, call.len_after) =
               Prefix(prev.proof_after, prev.len_after)

\* C14 is exercised: two such calls differed in their leaf index, and in
\* the capacity they were given
C14_LeafIndexesDiffer ==
    /\ SameProveInput(prev, call)
    /\ prev.branch.mem.leaf_index # call.branch.mem.leaf_index
    /\ call.proof_max_len > prev.proof_max_len

=============================================================================
